---- MODULE Spec2Model ----
(***************************************************************************)
(* A model of src/nn.py: SimpleNetwork, a feedforward network of sigmoid   *)
(* units with forward propagation (predict, predict_zero_one),             *)
(* back-propagation (gradients) and gradient descent (train).              *)
(*                                                                         *)
(* Numbers.  numpy's float64 values are modelled in fixed point: the       *)
(* integer v stands for the real v / Scale, products and quotients are     *)
(* rounded to the nearest unit.  All inputs of the model are far inside    *)
(* the range where float64 neither overflows nor saturates.                *)
(*                                                                         *)
(* Matrices.  A 2-D array is a sequence of rows, each row a sequence of    *)
(* numbers; every matrix of the model has at least one row and one column. *)
(*                                                                         *)
(* Control.  Every method is a sequence of steps, one per statement (or    *)
(* loop iteration) of the source; pc[c] is the position of caller c and    *)
(* fr[c] holds the locals of its call.  An exception ends the call and is  *)
(* recorded in fr[c].err.                                                  *)
(***************************************************************************)
EXTENDS Integers, Sequences, FiniteSets, TLC

\* ------------------------------------------------------------- bounds
\* Fixed-point precision: v stands for v / Scale.
Scale == 1000
\* Largest `iterations` argument given to train.
MaxIter == 2
\* Number of method calls made on the instance in one behaviour.
MaxCalls == 2
\* Number of method calls each caller makes in the concurrent specification.
MaxConcCalls == 1
\* Number of sample streams of the random source used by random().
NumSeeds == 2

One == Scale

\* ------------------------------------------------------- float arithmetic
\* a / b for an integer b > 0, rounded to the nearest unit.
RDiv(a, b) == (a + (b \div 2)) \div b

\* Product and quotient of two fixed-point numbers.
Mul(a, b) == RDiv(a * b, Scale)
Div(a, b) == RDiv(a * Scale, b)

Abs(a) == IF a < 0 THEN -a ELSE a

\* np.exp on fixed-point numbers: a 4th-order Taylor polynomial on
\* [-1/4, 1/4], extended by exp(x) = exp(x/2) * exp(x - x/2).
ExpSmall(x) ==
    LET x2 == Mul(x, x)
        x3 == Mul(x2, x)
        x4 == Mul(x3, x)
    IN  One + x + RDiv(x2, 2) + RDiv(x3, 6) + RDiv(x4, 24)

RECURSIVE Exp(_)
Exp(x) ==
    IF 4 * Abs(x) <= Scale
    THEN ExpSmall(x)
    ELSE Mul(Exp(x \div 2), Exp(x - (x \div 2)))

\* math.sqrt of a fixed-point number v >= 0.
Sqrt(v) == CHOOSE r \in 0..(3 * Scale) : r * r <= v * Scale /\ v * Scale < (r + 1) * (r + 1)

\* ------------------------------------------------------------- matrices
Rows(m) == Len(m)
Cols(m) == Len(m[1])
Shape(m) == <<Rows(m), Cols(m)>>

\* The array m stored as a tuple of tuples (the concatenations change
\* nothing; they make TLC compute every entry once).
Array(m) == [i \in 1..Len(m) |-> m[i] \o <<>>] \o <<>>

RECURSIVE SumTo(_, _)
SumTo(f, n) == IF n = 0 THEN 0 ELSE f[n] + SumTo(f, n - 1)

\* np.dot of two 2-D arrays: defined when the inner dimensions agree.
DotOK(a, b) == Cols(a) = Rows(b)
Dot(a, b) ==
    Array([i \in 1..Rows(a) |->
        [j \in 1..Cols(b) |->
            SumTo([k \in 1..Cols(a) |-> Mul(a[i][k], b[k][j])], Cols(a))]])

\* ndarray.T
Transpose(m) == Array([j \in 1..Cols(m) |-> [i \in 1..Rows(m) |-> m[i][j]]])

\* numpy broadcasting of two 2-D shapes: each pair of dimensions must be
\* equal or one of them 1; the result takes the larger.
Max(a, b) == IF a >= b THEN a ELSE b
Min(a, b) == IF a <= b THEN a ELSE b
DimOK(p, q) == p = q \/ p = 1 \/ q = 1
BroadcastOK(a, b) == DimOK(Rows(a), Rows(b)) /\ DimOK(Cols(a), Cols(b))
BroadcastShape(a, b) == <<Max(Rows(a), Rows(b)), Max(Cols(a), Cols(b))>>
\* The entry of m that broadcasting puts at (i, j).
At(m, i, j) == m[IF Rows(m) = 1 THEN 1 ELSE i][IF Cols(m) = 1 THEN 1 ELSE j]

\* a - b and np.multiply(a, b), element-wise with broadcasting.
MatSub(a, b) ==
    Array([i \in 1..BroadcastShape(a, b)[1] |->
        [j \in 1..BroadcastShape(a, b)[2] |-> At(a, i, j) - At(b, i, j)]])
Multiply(a, b) ==
    Array([i \in 1..BroadcastShape(a, b)[1] |->
        [j \in 1..BroadcastShape(a, b)[2] |-> Mul(At(a, i, j), At(b, i, j))]])

\* ------------------------------------------------------------ activation
\* sig_func: 1 / (1 + np.exp(-val))
sig_func_scalar(val) == Div(One, One + Exp(-val))
sig_func(m) ==
    Array([i \in 1..Rows(m) |-> [j \in 1..Cols(m) |-> sig_func_scalar(m[i][j])]])

\* sig_func_g: sig_func(val) * (1 - sig_func(val))
sig_func_g_scalar(val) == Mul(sig_func_scalar(val), One - sig_func_scalar(val))
sig_func_g(m) ==
    Array([i \in 1..Rows(m) |-> [j \in 1..Cols(m) |-> sig_func_g_scalar(m[i][j])]])

\* ------------------------------------------------------ python sequences
\* seq[i] for a Python index i (0-based, negative counts from the end);
\* IndexError when PyIndexOK is false.
PyIndexOK(seq, i) == -Len(seq) <= i /\ i < Len(seq)
PyIndex(seq, i) == IF i >= 0 THEN seq[i + 1] ELSE seq[Len(seq) + i + 1]

\* grad.append(m) where the source has grad.insert(0, m).
InsertBack(list, m) == list \o <<m>>

\* list.insert(0, m)
InsertFront(list, m) == <<m>> \o list

\* ---------------------------------------------------------- the instance
\* The SimpleNetwork object: its two attributes.
VARIABLES network

\* How the instance was made: "none" before construction, then "random" or
\* "init", with the layer_units given to random().
VARIABLES made

\* pc[c]: the statement caller c executes next; fr[c]: the arguments, locals
\* and outcome of its call; ncalls[c]: the calls it has started.
VARIABLES pc, fr, ncalls

\* Whether the callers synchronize externally (one call at a time).
VARIABLES sync

\* History: actOwner[i] is the caller whose statement put entry i into
\* network.activations; w0 holds self.weights as they were when train was
\* entered; shape0 the shapes of the weight matrices at construction.
\* fr[c].foreign_read records that the gradients call of c has read a cache
\* that its own forward pass did not write.
VARIABLES actOwner, w0, shape0

vars == <<network, made, pc, fr, ncalls, sync, actOwner, w0, shape0>>

Callers == {1, 2}

\* __init__: self.weights = layer_weights; self.activations = []
new_network(layer_weights) == [weights |-> layer_weights, activations |-> <<>>]

\* ----------------------------------------------------------- random()
\* np.random.uniform: the n-th number of sample stream s, as a multiple
\* d / 3 of the half-width, d in -2..2.
Draw(s, n) == ((7 * s + 3 * n) % 5) - 2

\* uniform(n_in, n_out), drawing from stream s after `used` numbers.
epsilon(n_in, n_out) == Div(Sqrt(6 * One), Sqrt((n_in + n_out) * One))
uniform(n_in, n_out, s, used) ==
    Array([i \in 1..n_in |->
        [j \in 1..n_out |->
            RDiv(epsilon(n_in, n_out) * Draw(s, used + (i - 1) * n_out + j), 3)]])

\* zip(layer_units, layer_units[1:])
Pairs(layer_units) ==
    [k \in 1..(IF Len(layer_units) = 0 THEN 0 ELSE Len(layer_units) - 1) |->
        <<layer_units[k], layer_units[k + 1]>>]

\* cls(*[uniform(i, o) for i, o in pairs])
random(layer_units, s) ==
    new_network([k \in 1..Len(Pairs(layer_units)) |->
        uniform(Pairs(layer_units)[k][1], Pairs(layer_units)[k][2], s, 4 * k)] \o <<>>)

\* ------------------------------------------------------------ predict
Last(seq) == seq[Len(seq)]

\* The cache extended where the source replaces it:
\* self.activations.append(input_matrix).
predict_init_append(self, input_matrix) ==
    [self EXCEPT !.activations = Append(@, input_matrix)]

\* self.activations = [input_matrix]
predict_init(self, input_matrix) == [self EXCEPT !.activations = <<input_matrix>>]

\* self.activations.append(sig_func(np.dot(self.activations[-1], weight)))
predict_layer_ok(self, weight) == DotOK(Last(self.activations), weight)
\* The layer's output stored among the weights:
\* self.weights.append(...) where the source has self.activations.append(...).
predict_layer_typo(self, weight) ==
    [self EXCEPT !.weights = Append(@, sig_func(Dot(Last(self.activations), weight)))]

\* Every layer fed from the input: self.activations[0] where the source
\* has self.activations[-1].
predict_layer_first(self, weight) ==
    [self EXCEPT !.activations = Append(@, sig_func(Dot(@[1], weight)))]

predict_layer(self, weight) ==
    [self EXCEPT !.activations = Append(@, sig_func(Dot(Last(@), weight)))]

\* np.where(m < 0.5, 0, 1)
zero_one(m) ==
    Array([i \in 1..Rows(m) |->
        [j \in 1..Cols(m) |-> IF m[i][j] < One \div 2 THEN 0 ELSE 1]])

\* ----------------------------------------------------------- gradients
\* np.multiply(error, sig_func_g(a)).T
gate_ok(error, a) == BroadcastOK(error, a)
gate(error, a) == Transpose(Multiply(error, sig_func_g(a)))

\* np.dot(g, h).T
layer_grad_ok(g, h) == DotOK(g, h)
layer_grad(g, h) == Transpose(Dot(g, h))

\* The exception raised by lines 145-147, or "none".
seed_exc(self, layer, error_lastest) ==
    IF ~PyIndexOK(self.activations, layer) THEN "IndexError"
    ELSE IF ~PyIndexOK(self.weights, layer) THEN "IndexError"
    ELSE IF ~DotOK(PyIndex(self.activations, layer), PyIndex(self.weights, layer))
    THEN "ValueError"
    ELSE IF ~gate_ok(error_lastest,
                     Dot(PyIndex(self.activations, layer), PyIndex(self.weights, layer)))
    THEN "ValueError"
    ELSE "none"

\* a_lastest = np.dot(self.activations[layer], self.weights[layer])
\* g_lastest = np.multiply(error_lastest, sig_func_g(a_lastest)).T
seed_g(self, layer, error_lastest) ==
    gate(error_lastest,
         Dot(PyIndex(self.activations, layer), PyIndex(self.weights, layer)))

\* The exception raised by line 151, or "none".
first_exc(self, layer, g_last) ==
    IF ~PyIndexOK(self.activations, layer) THEN "IndexError"
    ELSE IF ~layer_grad_ok(g_last, PyIndex(self.activations, layer)) THEN "ValueError"
    ELSE "none"

\* error_l = np.dot(self.weights[layer], g_last).T
back_error(self, layer, g_last) == Transpose(Dot(PyIndex(self.weights, layer), g_last))

\* a_last = np.dot(self.activations[layer - 1], self.weights[layer - 1])
back_a(self, layer) ==
    Dot(PyIndex(self.activations, layer - 1), PyIndex(self.weights, layer - 1))

\* g_last = np.multiply(error_l, sig_func_g(a_last)).T
back_g(self, layer, g_last) == gate(back_error(self, layer, g_last), back_a(self, layer))

\* The exception raised by one pass of the while loop (lines 156-163), or "none".
back_exc(self, layer, g_last) ==
    IF ~PyIndexOK(self.weights, layer) THEN "IndexError"
    ELSE IF ~DotOK(PyIndex(self.weights, layer), g_last) THEN "ValueError"
    ELSE IF ~PyIndexOK(self.activations, layer - 1) THEN "IndexError"
    ELSE IF ~DotOK(PyIndex(self.activations, layer - 1), PyIndex(self.weights, layer - 1))
    THEN "ValueError"
    ELSE IF ~gate_ok(back_error(self, layer, g_last), back_a(self, layer))
    THEN "ValueError"
    ELSE IF ~layer_grad_ok(back_g(self, layer, g_last), PyIndex(self.activations, layer - 1))
    THEN "ValueError"
    ELSE "none"

\* grad.insert(0, np.dot(g_last, self.activations[layer - 1]).T), with the
\* g_last just computed.
back_grad(self, layer, g_last, grad) ==
    InsertFront(grad, layer_grad(back_g(self, layer, g_last),
                                 PyIndex(self.activations, layer - 1)))

\* gradients = [x / n_input for x in grad]
MatDivN(m, n) ==
    Array([i \in 1..Rows(m) |-> [j \in 1..Cols(m) |-> RDiv(m[i][j], n)]])
normalize(grad, n_input) == [k \in 1..Len(grad) |-> MatDivN(grad[k], n_input)] \o <<>>

\* --------------------------------------------------------------- train
\* learning_rate * grad
ScalarMul(r, m) ==
    Array([i \in 1..Rows(m) |-> [j \in 1..Cols(m) |-> Mul(r, m[i][j])]])

\* weight -= learning_rate * grad: in place, so the result must have the
\* shape of weight.
train_update_ok(weight, learning_rate, grad) ==
    BroadcastOK(weight, grad) /\ BroadcastShape(weight, grad) = Shape(weight)
\* Gradient ascent: weight += learning_rate * grad.
train_update_ascent(self, k, learning_rate, grad) ==
    [self EXCEPT !.weights[k] =
        MatSub(@, ScalarMul(-learning_rate, grad))]

\* The weight rebound to a broadcast result:
\* self.weights[k] = weight - learning_rate * grad.T
train_update_rebound(self, k, learning_rate, grad) ==
    [self EXCEPT !.weights[k] = MatSub(@, ScalarMul(learning_rate, Transpose(grad)))]

train_update(self, k, learning_rate, grad) ==
    [self EXCEPT !.weights[k] = MatSub(@, ScalarMul(learning_rate, grad))]

\* --------------------------------------------------------------- inputs
Half == One \div 2

\* Weight matrices given to the constructor: none; a (2,2,1) network; a
\* (2,2,2,1) network; a chain whose inner dimensions disagree.
W_2x2a == <<<<One, -Half>>, <<Half, One + Half>>>>
W_2x2b == <<<<-One, Half>>, <<2 * One, -Half>>>>
W_2x1 == <<<<One>>, <<-One>>>>
W_1x1 == <<<<Half>>>>
WeightLists ==
    { <<>>,
      <<W_2x2a, W_2x1>>,
      <<W_2x2a, W_2x2b, W_2x1>>,
      <<W_2x2a, W_1x1>> }

\* layer_units given to random().
LayerUnits == { <<>>, <<2>>, <<2, 1>>, <<2, 2, 1>> }
Seeds == 1..NumSeeds

\* input_matrix: two examples of two features; one example of two features.
X_2x2 == <<<<0, One>>, <<One, One>>>>
X_1x2 == <<<<One, 0>>>>
InputMatrices == {X_2x2, X_1x2}

\* output_matrix: (2,1); (1,1); (2,2); (3,1).
Y_2x1 == <<<<One>>, <<0>>>>
Y_1x1 == <<<<One>>>>
Y_2x2 == <<<<One, 0>>, <<0, One>>>>
Y_3x1 == <<<<One>>, <<0>>, <<One>>>>
OutputMatrices == {Y_2x1, Y_1x1, Y_2x2, Y_3x1}

\* iterations and learning_rate.
IterationCounts == (-1)..MaxIter
LearningRates == {Half}

\* ---------------------------------------------------------------- frames
None == <<>>
Blank ==
    [op |-> "none", input_matrix |-> None, output_matrix |-> None,
     iterations |-> 0, learning_rate |-> 0,
     i |-> 0, wi |-> 0, layer |-> 0, h |-> None, error |-> None,
     g_last |-> None, grad |-> None, gradients |-> None, zi |-> 0,
     foreign_read |-> FALSE, ret |-> None, err |-> "none"]

\* What is left of a frame when its call has ended: the call and its outcome.
Ended(f, value, e) ==
    [Blank EXCEPT !.op = f.op, !.input_matrix = f.input_matrix,
                  !.output_matrix = f.output_matrix, !.iterations = f.iterations,
                  !.learning_rate = f.learning_rate,
                  !.foreign_read = f.foreign_read, !.ret = value, !.err = e]

Return(c, value) ==
    /\ pc' = [pc EXCEPT ![c] = "idle"]
    /\ fr' = [fr EXCEPT ![c] = Ended(fr[c], value, "none")]

RaiseFrom(c, f, e) ==
    /\ pc' = [pc EXCEPT ![c] = "idle"]
    /\ fr' = [fr EXCEPT ![c] = Ended(f, None, e)]

Raise(c, e) == RaiseFrom(c, fr[c], e)

Goto(c, label, f) ==
    /\ pc' = [pc EXCEPT ![c] = label]
    /\ fr' = [fr EXCEPT ![c] = f]

\* The owners of the cache entries after a statement of caller c: entries
\* appended to the list are c's, a list made anew is all c's.
OwnersAfter(owners, old, new, c) ==
    IF Len(new) >= Len(old) /\ SubSeq(new, 1, Len(old)) = old
    THEN owners \o [k \in 1..(Len(new) - Len(old)) |-> c]
    ELSE [k \in 1..Len(new) |-> c]

\* The cache is the one caller c's own forward pass wrote.
OwnCache(c) ==
    /\ Len(network.activations) = Len(network.weights) + 1
    /\ \A k \in 1..Len(actOwner) : actOwner[k] = c

\* ------------------------------------------------------------------ Init
Init ==
    /\ network = new_network(<<>>)
    /\ made = [how |-> "none", layer_units |-> <<>>]
    /\ pc = [c \in Callers |-> "idle"]
    /\ fr = [c \in Callers |-> Blank]
    /\ ncalls = [c \in Callers |-> 0]
    /\ sync = TRUE
    /\ actOwner = <<>>
    /\ w0 = <<>>
    /\ shape0 = <<>>

ShapesOf(ws) == [k \in 1..Len(ws) |-> Shape(ws[k])]

\* SimpleNetwork.random(*layer_units)
Random ==
    /\ made.how = "none"
    /\ \E layer_units \in LayerUnits, s \in Seeds :
          /\ network' = random(layer_units, s)
          /\ made' = [how |-> "random", layer_units |-> layer_units]
          /\ shape0' = ShapesOf(network'.weights)
    /\ UNCHANGED <<pc, fr, ncalls, sync, actOwner, w0>>

\* SimpleNetwork(*layer_weights)
Construct ==
    /\ made.how = "none"
    /\ \E layer_weights \in WeightLists :
          /\ network' = new_network(layer_weights)
          /\ shape0' = ShapesOf(layer_weights)
    /\ made' = [how |-> "init", layer_units |-> <<>>]
    /\ UNCHANGED <<pc, fr, ncalls, sync, actOwner, w0>>

\* ----------------------------------------------------------------- calls
\* Caller c may start a call: the instance exists, c is between calls and
\* has calls left; under external synchronization no other call is running.
MayCall(c, limit) ==
    /\ made.how # "none"
    /\ pc[c] = "idle"
    /\ ncalls[c] < limit
    /\ sync => \A d \in Callers : pc[d] = "idle"

Enter(c, label, f) ==
    /\ pc' = [pc EXCEPT ![c] = label]
    /\ fr' = [fr EXCEPT ![c] = f]
    /\ ncalls' = [ncalls EXCEPT ![c] = @ + 1]

CallPredict(c, limit, XS) ==
    /\ MayCall(c, limit)
    /\ \E X \in XS :
          Enter(c, "predict_init", [Blank EXCEPT !.op = "predict", !.input_matrix = X])
    /\ UNCHANGED <<network, made, sync, actOwner, w0, shape0>>

CallPredictZeroOne(c, limit, XS) ==
    /\ MayCall(c, limit)
    /\ \E X \in XS :
          Enter(c, "predict_init",
                [Blank EXCEPT !.op = "predict_zero_one", !.input_matrix = X])
    /\ UNCHANGED <<network, made, sync, actOwner, w0, shape0>>

CallGradients(c, limit, XS, YS) ==
    /\ MayCall(c, limit)
    /\ \E X \in XS, Y \in YS :
          Enter(c, "gradients_layer",
                [Blank EXCEPT !.op = "gradients", !.input_matrix = X,
                              !.output_matrix = Y])
    /\ UNCHANGED <<network, made, sync, actOwner, w0, shape0>>

CallTrain(c, limit, XS, YS) ==
    /\ MayCall(c, limit)
    /\ \E X \in XS, Y \in YS,
          iterations \in IterationCounts, learning_rate \in LearningRates :
          Enter(c, "train_for",
                [Blank EXCEPT !.op = "train", !.input_matrix = X,
                              !.output_matrix = Y, !.iterations = iterations,
                              !.learning_rate = learning_rate])
    /\ w0' = network.weights
    /\ UNCHANGED <<network, made, sync, actOwner, shape0>>

\* ----------------------------------------------------------------- steps
\* An update of the instance by a statement of caller c.
Store(c, self) ==
    /\ network' = self
    /\ actOwner' = OwnersAfter(actOwner, network.activations, self.activations, c)

\* predict, line 66: self.activations = [input_matrix]
PredictInit(c) ==
    /\ pc[c] = "predict_init"
    /\ Store(c, predict_init(network, fr[c].input_matrix))
    /\ Goto(c, "predict_for", [fr[c] EXCEPT !.wi = 1])
    /\ UNCHANGED <<made, ncalls, sync, w0, shape0>>

\* predict, lines 68-70: one pass of `for weight in self.weights`, or its end.
PredictFor(c) ==
    /\ pc[c] = "predict_for"
    /\ IF fr[c].wi > Len(network.weights)
       THEN /\ Goto(c, "predict_return", fr[c])
            /\ UNCHANGED <<network, actOwner>>
       ELSE IF predict_layer_ok(network, network.weights[fr[c].wi])
       THEN /\ Store(c, predict_layer(network, network.weights[fr[c].wi]))
            /\ Goto(c, "predict_for", [fr[c] EXCEPT !.wi = @ + 1])
       ELSE /\ Raise(c, "ValueError")
            /\ UNCHANGED <<network, actOwner>>
    /\ UNCHANGED <<made, ncalls, sync, w0, shape0>>

\* predict, line 71: return self.activations[-1], to the caller of predict.
PredictReturn(c) ==
    /\ pc[c] = "predict_return"
    /\ CASE fr[c].op = "predict" ->
                Return(c, Last(network.activations))
         [] fr[c].op = "predict_zero_one" ->
                Goto(c, "zero_one", [fr[c] EXCEPT !.h = Last(network.activations)])
         [] OTHER ->
                Goto(c, "gradients_error", [fr[c] EXCEPT !.h = Last(network.activations)])
    /\ UNCHANGED <<network, made, ncalls, sync, actOwner, w0, shape0>>

\* predict_zero_one, line 88
ZeroOne(c) ==
    /\ pc[c] = "zero_one"
    /\ Return(c, zero_one(fr[c].h))
    /\ UNCHANGED <<network, made, ncalls, sync, actOwner, w0, shape0>>

\* gradients, lines 139-141: layer = len(self.weights) - 1, then predict.
GradientsLayer(c) ==
    /\ pc[c] = "gradients_layer"
    /\ Goto(c, "predict_init", [fr[c] EXCEPT !.layer = Len(network.weights) - 1])
    /\ UNCHANGED <<network, made, ncalls, sync, actOwner, w0, shape0>>

\* gradients, line 143: error_lastest = h_lastest - output_matrix
GradientsError(c) ==
    /\ pc[c] = "gradients_error"
    /\ IF BroadcastOK(fr[c].h, fr[c].output_matrix)
       THEN Goto(c, "gradients_seed",
                 [fr[c] EXCEPT !.error = MatSub(fr[c].h, fr[c].output_matrix)])
       ELSE Raise(c, "ValueError")
    /\ UNCHANGED <<network, made, ncalls, sync, actOwner, w0, shape0>>

\* gradients, lines 145-147: a_lastest and g_lastest, from the cache.
GradientsSeed(c) ==
    /\ pc[c] = "gradients_seed"
    /\ LET f == [fr[c] EXCEPT !.foreign_read = @ \/ ~OwnCache(c)]
       IN  IF seed_exc(network, f.layer, f.error) = "none"
           THEN Goto(c, "gradients_first",
                     [f EXCEPT !.g_last = seed_g(network, f.layer, f.error)])
           ELSE RaiseFrom(c, f, seed_exc(network, f.layer, f.error))
    /\ UNCHANGED <<network, made, ncalls, sync, actOwner, w0, shape0>>

\* gradients, lines 149-151: grad = [np.dot(g_last, self.activations[layer]).T]
GradientsFirst(c) ==
    /\ pc[c] = "gradients_first"
    /\ LET f == [fr[c] EXCEPT !.foreign_read = @ \/ ~OwnCache(c)]
       IN  IF first_exc(network, f.layer, f.g_last) = "none"
           THEN Goto(c, "gradients_while",
                     [f EXCEPT !.grad =
                         InsertFront(<<>>, layer_grad(f.g_last,
                                                      PyIndex(network.activations, f.layer)))])
           ELSE RaiseFrom(c, f, first_exc(network, f.layer, f.g_last))
    /\ UNCHANGED <<network, made, ncalls, sync, actOwner, w0, shape0>>

\* gradients, lines 154-164: one pass of `while layer >= 1`, or its end.
GradientsWhile(c) ==
    /\ pc[c] = "gradients_while"
    /\ IF fr[c].layer >= 1
       THEN LET f == [fr[c] EXCEPT !.foreign_read = @ \/ ~OwnCache(c)]
            IN  IF back_exc(network, f.layer, f.g_last) = "none"
                THEN Goto(c, "gradients_while",
                          [f EXCEPT
                             !.g_last = back_g(network, f.layer, f.g_last),
                             !.grad = back_grad(network, f.layer, f.g_last, f.grad),
                             !.layer = @ - 1])
                ELSE RaiseFrom(c, f, back_exc(network, f.layer, f.g_last))
       ELSE Goto(c, "gradients_return", fr[c])
    /\ UNCHANGED <<network, made, ncalls, sync, actOwner, w0, shape0>>

\* gradients, lines 166-169: divide by the number of examples and return,
\* to the caller or into train's `gradients`.
GradientsReturn(c) ==
    /\ pc[c] = "gradients_return"
    /\ IF fr[c].op = "gradients"
       THEN Return(c, normalize(fr[c].grad, Rows(fr[c].input_matrix)))
       ELSE Goto(c, "train_zip",
                 [fr[c] EXCEPT
                    !.gradients = normalize(fr[c].grad, Rows(fr[c].input_matrix)),
                    !.zi = 1])
    /\ UNCHANGED <<network, made, ncalls, sync, actOwner, w0, shape0>>

\* train, lines 195-197: `for _ in range(0, iterations)`: the next pass
\* calls gradients; after the last one train returns None.
TrainFor(c) ==
    /\ pc[c] = "train_for"
    /\ IF fr[c].i < fr[c].iterations
       THEN Goto(c, "gradients_layer", fr[c])
       ELSE Return(c, None)
    /\ UNCHANGED <<network, made, ncalls, sync, actOwner, w0, shape0>>

\* train, lines 199-202: one pass of `for grad, weight in zip(gradients,
\* self.weights)`: weight -= learning_rate * grad; or its end.
TrainZip(c) ==
    /\ pc[c] = "train_zip"
    /\ IF fr[c].zi <= Min(Len(fr[c].gradients), Len(network.weights))
       THEN IF train_update_ok(network.weights[fr[c].zi], fr[c].learning_rate,
                               fr[c].gradients[fr[c].zi])
            THEN /\ Store(c, train_update(network, fr[c].zi, fr[c].learning_rate,
                                          fr[c].gradients[fr[c].zi]))
                 /\ Goto(c, "train_zip", [fr[c] EXCEPT !.zi = @ + 1])
            ELSE /\ Raise(c, "ValueError")
                 /\ UNCHANGED <<network, actOwner>>
       ELSE /\ Goto(c, "train_for", [fr[c] EXCEPT !.i = @ + 1])
            /\ UNCHANGED <<network, actOwner>>
    /\ UNCHANGED <<made, ncalls, sync, w0, shape0>>

\* ------------------------------------------------------- specifications
\* One caller: the program as written, single-threaded.
Next ==
    \/ Random
    \/ Construct
    \/ CallPredict(1, MaxCalls, InputMatrices)
    \/ CallPredictZeroOne(1, MaxCalls, InputMatrices)
    \/ CallGradients(1, MaxCalls, InputMatrices, OutputMatrices)
    \/ CallTrain(1, MaxCalls, InputMatrices, OutputMatrices)
    \/ PredictInit(1)
    \/ PredictFor(1)
    \/ PredictReturn(1)
    \/ ZeroOne(1)
    \/ GradientsLayer(1)
    \/ GradientsError(1)
    \/ GradientsSeed(1)
    \/ GradientsFirst(1)
    \/ GradientsWhile(1)
    \/ GradientsReturn(1)
    \/ TrainFor(1)
    \/ TrainZip(1)

Spec == Init /\ [][Next]_vars

\* Two callers share one (2,2,1) instance, with or without external
\* synchronization, and call predict and gradients.
InitConc ==
    /\ network = new_network(<<W_2x2a, W_2x1>>)
    /\ made = [how |-> "init", layer_units |-> <<>>]
    /\ pc = [c \in Callers |-> "idle"]
    /\ fr = [c \in Callers |-> Blank]
    /\ ncalls = [c \in Callers |-> 0]
    /\ sync \in BOOLEAN
    /\ actOwner = <<>>
    /\ w0 = <<>>
    /\ shape0 = ShapesOf(network.weights)

NextConc ==
    \E c \in Callers :
        \/ CallPredict(c, MaxConcCalls, InputMatrices)
        \/ CallGradients(c, MaxConcCalls, InputMatrices, {Y_2x1})
        \/ PredictInit(c)
        \/ PredictFor(c)
        \/ PredictReturn(c)
        \/ GradientsLayer(c)
        \/ GradientsError(c)
        \/ GradientsSeed(c)
        \/ GradientsFirst(c)
        \/ GradientsWhile(c)
        \/ GradientsReturn(c)

SpecConc == InitConc /\ [][NextConc]_vars

\* ------------------------------------------------ the mathematics claimed
\* h_l, the activation of layer l (h_0 the input), for weights W.
RECURSIVE HLayer(_, _, _)
HLayer(W, X, l) ==
    IF l = 0 THEN X ELSE sig_func(Dot(HLayer(W, X, l - 1), W[l]))

\* g_l for l in 1..L, weight_{l-1} being W[l]:
\* g_L = ((h_L - y) (.) sigmoid'(h_{L-1} x weight_{L-1}))^T,
\* g_l = ((weight_l x g_{l+1})^T (.) sigmoid'(h_{l-1} x weight_{l-1}))^T.
RECURSIVE GLayer(_, _, _, _)
GLayer(W, X, Y, l) ==
    LET a == Dot(HLayer(W, X, l - 1), W[l])
        error == IF l = Len(W)
                 THEN MatSub(HLayer(W, X, l), Y)
                 ELSE Transpose(Dot(W[l + 1], GLayer(W, X, Y, l + 1)))
    IN  Transpose(Multiply(error, sig_func_g(a)))

\* grad_{l-1} = (g_l x h_{l-1})^T / N
Backprop(W, X, Y, l) ==
    LET m == Transpose(Dot(GLayer(W, X, Y, l), HLayer(W, X, l - 1)))
    IN  Array([i \in 1..Rows(m) |-> [j \in 1..Cols(m) |-> RDiv(m[i][j], Rows(X))]])

\* One gradient-descent step W -> W - r * gradients(W, X, Y), and k of them.
DescentStep(W, X, Y, r) ==
    [l \in 1..Len(W) |->
        LET grad == Backprop(W, X, Y, l)
        IN  Array([i \in 1..Rows(W[l]) |->
                [j \in 1..Cols(W[l]) |-> W[l][i][j] - Mul(r, grad[i][j])]])] \o <<>>

RECURSIVE KFold(_, _, _, _, _)
KFold(k, W, X, Y, r) ==
    IF k <= 0 THEN W ELSE KFold(k - 1, DescentStep(W, X, Y, r), X, Y, r)

\* Caller c's last call was op and has returned normally.
Returned(c, op) == pc[c] = "idle" /\ fr[c].op = op /\ fr[c].err = "none"
\* Caller c's last call was op and has ended, by a return or an exception.
EndedCall(c, op) == pc[c] = "idle" /\ fr[c].op = op

\* ----------------------------------------------------------------- claims
\* C1: when train(X, Y, iterations = k, learning_rate = r) returns, the
\* weights are the k-fold application of W -> W - r * gradients(W, X, Y) to
\* the weights train started from (each step's gradients all computed from
\* the weights the step before left); for k <= 0 they are unchanged.
C1_TrainIsKFoldDescent ==
    \A c \in Callers :
        Returned(c, "train") =>
            network.weights =
                KFold(fr[c].iterations, w0, fr[c].input_matrix,
                      fr[c].output_matrix, fr[c].learning_rate)

\* A train of two iterations has returned on a network of two or more weight
\* matrices, every one of which it changed.
C1_Witness ==
    /\ Returned(1, "train")
    /\ fr[1].iterations = 2
    /\ Len(w0) >= 2
    /\ \A l \in 1..Len(w0) : network.weights[l] # w0[l]

\* C6: once the instance exists, a step changes self.weights only if it is
\* the update statement of train; the steps of predict, predict_zero_one and
\* gradients leave every weight matrix as it was.
C6_OnlyTrainWritesWeights ==
    [][(made.how # "none" /\ network'.weights # network.weights) =>
            \E c \in Callers : pc[c] = "train_zip" /\ fr[c].op = "train"]_vars

\* A train has changed the weights and a later gradients call has returned.
C6_Witness ==
    /\ Returned(1, "gradients")
    /\ ncalls[1] = 2
    /\ w0 # <<>>
    /\ network.weights # w0

\* C7: the instance always holds as many weight matrices as at construction,
\* each of the shape it had then, whatever train calls have run or started.
C7_ShapesPreserved ==
    made.how # "none" => ShapesOf(network.weights) = shape0

\* Two train calls have returned, the second of two iterations, and the
\* weights differ from those the second started with.
C7_Witness ==
    /\ Returned(1, "train")
    /\ ncalls[1] = 2
    /\ fr[1].iterations = 2
    /\ Len(network.weights) >= 2
    /\ network.weights # w0

\* C9: when gradients returns on a network of L >= 1 weight matrices, it
\* returns L matrices and the one at index l-1 is (g_l x h_{l-1})^T / N with
\* g_L, ..., g_1 as the backward recurrence defines them.
C9_BackwardRecurrence ==
    \A c \in Callers :
        Returned(c, "gradients") =>
            /\ Len(fr[c].ret) = Len(network.weights)
            /\ \A l \in 1..Len(network.weights) :
                  fr[c].ret[l] =
                      Backprop(network.weights, fr[c].input_matrix,
                               fr[c].output_matrix, l)

\* gradients has returned on a network of three weight matrices, with a
\* well-shaped target and three different, non-zero gradients.
C9_Witness ==
    /\ Returned(1, "gradients")
    /\ Len(network.weights) = 3
    /\ fr[1].output_matrix = Y_2x1
    /\ fr[1].input_matrix = X_2x2
    /\ \A l \in 1..3 : \E i \in 1..2 : fr[1].ret[l][i][1] # 0
    /\ fr[1].ret[1] # fr[1].ret[2]

\* C10: when a forward pass has run through, the cache holds len(weights)+1
\* entries: the input, then for each weight matrix in order the sigmoid of
\* the product of the entry before it with that matrix, whatever the cache
\* held before; and so a call that returned leaves it with that many entries,
\* headed by the call's own input.
C10_CacheIsForwardPass ==
    \A c \in Callers :
        /\ pc[c] = "predict_return" =>
              /\ Len(network.activations) = Len(network.weights) + 1
              /\ network.activations[1] = fr[c].input_matrix
              /\ \A k \in 1..Len(network.weights) :
                    network.activations[k + 1] =
                        sig_func(Dot(network.activations[k], network.weights[k]))
        /\ (/\ pc[c] = "idle"
            /\ fr[c].err = "none"
            /\ \/ fr[c].op \in {"predict", "predict_zero_one", "gradients"}
               \/ fr[c].op = "train" /\ fr[c].iterations >= 1) =>
              /\ Len(network.activations) = Len(network.weights) + 1
              /\ network.activations[1] = fr[c].input_matrix

\* The forward pass of a second call has run through on a network of three
\* weight matrices, over the cache the first call left.
C10_Witness ==
    /\ pc[1] = "predict_return"
    /\ ncalls[1] = 2
    /\ Len(network.weights) = 3
    /\ fr[1].op = "predict_zero_one"

\* C8: with external synchronization no gradients call reads a cache that
\* its own forward pass did not write; without it such a read happens (the
\* witness).
C8_SerializedReadsOwnCache ==
    sync => \A c \in Callers : ~fr[c].foreign_read

\* Without synchronization, a gradients call has returned gradients after
\* reading cache entries written by the other caller's forward pass.
C8_Witness ==
    /\ ~sync
    /\ \E c \in Callers :
          /\ Returned(c, "gradients")
          /\ fr[c].foreign_read
          /\ network.activations[1] # fr[c].input_matrix

\* The network's layers chain, the input has n_0 columns and the target the
\* shape (N, n_L) of the predicted output.
ChainOK(W) == \A k \in 1..(Len(W) - 1) : Cols(W[k]) = Rows(W[k + 1])
OutShape(W, X) == <<Rows(X), IF Len(W) = 0 THEN Cols(X) ELSE Cols(W[Len(W)])>>
WellShaped(W, X, Y) ==
    /\ ChainOK(W)
    /\ Len(W) >= 1 => Cols(X) = Rows(W[1])
    /\ Shape(Y) = OutShape(W, X)

\* C2: for any network, an input of shape (N, n_0) and a target of shape
\* (N, n_L), gradients returns one matrix per weight matrix, in the order of
\* the weights, each of the shape of its weight matrix.
C2_OneGradientPerWeight ==
    \A c \in Callers :
        (/\ EndedCall(c, "gradients")
         /\ WellShaped(network.weights, fr[c].input_matrix, fr[c].output_matrix)) =>
            /\ fr[c].err = "none"
            /\ ShapesOf(fr[c].ret) = ShapesOf(network.weights)

\* C3: for any network that can be constructed and any input, every entry
\* of what predict returns lies strictly between 0 and 1.
C3_PredictInOpenInterval ==
    \A c \in Callers :
        Returned(c, "predict") =>
            \A i \in 1..Rows(fr[c].ret), j \in 1..Cols(fr[c].ret) :
                0 < fr[c].ret[i][j] /\ fr[c].ret[i][j] < One

\* C4: random construction with fewer than two layer sizes fails and
\* produces no network: a network made by random() was given two or more.
C4_RandomRejectsShortLists ==
    made.how = "random" => Len(made.layer_units) >= 2

\* C5: a gradients call, or a train call of one or more iterations, whose
\* output_matrix has not the shape (N, n_L) of the predicted output ends
\* with an error; it never returns.
C5_MismatchedTargetFails ==
    \A c \in Callers :
        (/\ \/ EndedCall(c, "gradients")
            \/ EndedCall(c, "train") /\ fr[c].iterations >= 1
         /\ Shape(fr[c].output_matrix) # OutShape(network.weights, fr[c].input_matrix)) =>
            fr[c].err # "none"
====
